---- MODULE Spec2Model ----
(***************************************************************************)
(* coc-ai: the background tab-completion provider (AICompletionProvider:   *)
(* single-slot cache, debounce timer, background fetch) and the edit task  *)
(* (AIEdit: run / apply / close over host buffers and tab pages).          *)
(*                                                                         *)
(* Text is a sequence of one-character strings; a buffer is a sequence of  *)
(* lines.  The host (nvim / coc.nvim) is modelled through the calls the    *)
(* code makes on it.                                                       *)
(***************************************************************************)
EXTENDS Integers, Sequences, FiniteSets, TLC

(* ------------------------------ bounds --------------------------------- *)

\* scheduleFetch calls (= timers created) in one run of the provider
MaxCalls == 2
\* document changes in one run of the provider
MaxChanges == 1

(* ------------------------- text helpers -------------------------------- *)

WhiteSpace == {" ", "\n", "\t"}

RECURSIVE TrimStart(_)
TrimStart(s) ==
  IF s = <<>> THEN <<>>
  ELSE IF Head(s) \in WhiteSpace THEN TrimStart(Tail(s)) ELSE s

RECURSIVE TrimEnd(_)
TrimEnd(s) ==
  IF s = <<>> THEN <<>>
  ELSE IF s[Len(s)] \in WhiteSpace THEN TrimEnd(SubSeq(s, 1, Len(s) - 1)) ELSE s

\* String.prototype.trim
Trim(s) == TrimEnd(TrimStart(s))

\* drop the carriage return a line break was preceded by
StripCR(line) ==
  IF line # <<>> /\ line[Len(line)] = "\r" THEN SubSeq(line, 1, Len(line) - 1) ELSE line

\* value.split(/\r?\n/), cur being the line collected so far
RECURSIVE SplitFrom(_, _)
SplitFrom(s, cur) ==
  IF s = <<>> THEN <<cur>>
  ELSE IF Head(s) = "\n" THEN <<StripCR(cur)>> \o SplitFrom(Tail(s), <<>>)
  ELSE SplitFrom(Tail(s), Append(cur, Head(s)))

SplitLines(s) == SplitFrom(s, <<>>)

\* value.split('\n')
RECURSIVE SplitLFFrom(_, _)
SplitLFFrom(s, cur) ==
  IF s = <<>> THEN <<cur>>
  ELSE IF Head(s) = "\n" THEN <<cur>> \o SplitLFFrom(Tail(s), <<>>)
  ELSE SplitLFFrom(Tail(s), Append(cur, Head(s)))

\* lines.join('\n')
RECURSIVE JoinLines(_)
JoinLines(ls) ==
  IF ls = <<>> THEN <<>>
  ELSE IF Len(ls) = 1 THEN ls[1]
  ELSE ls[1] \o <<"\n">> \o JoinLines(Tail(ls))

\* content.replace(/\n/g, ' ')
RECURSIVE CollapseLines(_)
CollapseLines(s) ==
  IF s = <<>> THEN <<>>
  ELSE <<IF Head(s) = "\n" THEN " " ELSE Head(s)>> \o CollapseLines(Tail(s))

(* ===================== AICompletionProvider ============================ *)

Null == [null |-> TRUE]

Docs == {"a", "b"}
\* what nvim can answer to call('mode'): insert, normal
Modes == {"i", "n"}

\* cursor positions (line, character) of completion requests
Positions == {[line |-> 0, character |-> 1], [line |-> 1, character |-> 1]}

Ids == 1..MaxCalls

\* what engine.execute can answer: a rejected promise or a completion text
ExecuteTexts == {<<>>, <<" ", "\n">>, <<"x">>}
ExecuteFailure == [kind |-> "error", text |-> <<>>]
ExecuteOutcomes == {ExecuteFailure} \cup {[kind |-> "text", text |-> t] : t \in ExecuteTexts}
NoAnswer == [kind |-> "none", text |-> <<>>]

\* the document snapshot and position a timer callback captured
NoClosure == [uri |-> "none", version |-> 0, position |-> [line |-> 0, character |-> 0]]

VARIABLES
  enabled,                \* engine.config.enabled
  cachedCompletion,       \* Null or [position, documentVersion, item]
  currentRequestTimeout,  \* 0 (null) or the handle of the last timer created
  timers,                 \* host: handles of the timers still pending
  nextId,                 \* host: next timer handle
  closure,                \* handle -> (document, position) captured by the callback
  pc,                     \* handle -> where the callback's fetchCompletion stands
  lastCall,               \* arguments of the scheduleFetch call of the pending timer
  served,                 \* the cache entries requests returned: (fetch, position, version)
  docVersion,             \* host: version of each document
  last                    \* what the last handler of the provider did (see Did)

providerVars == <<enabled, cachedCompletion, currentRequestTimeout, timers, nextId,
                  closure, pc, lastCall, served, docVersion, last>>

VARIABLES
  task,                   \* AIEdit.task: "edit" or "complete"
  bufnr,                  \* AIEdit.bufnr
  linenr,                 \* AIEdit.linenr
  currLine,               \* AIEdit.currLine
  originalBufnr,          \* AIEdit.originalBufnr
  originalRange,          \* AIEdit.originalRange (NoRange: undefined)
  aiBufnr,                \* AIEdit.aiBufnr
  origTempBufnr,          \* AIEdit.origTempBufnr
  reasonBlock,            \* run(): reasonBlock
  accumulatedContent,     \* run(): accumulatedContent
  pcRun,                  \* run(): "idle", "streaming", or how it ended
  received,               \* engine.generate: the chunks delivered so far
  buffers,                \* host: buffer number -> its lines
  tabs,                   \* host: the tab pages, each with its windows' buffers
  curTab,                 \* host: index of the current tab page
  cursor,                 \* host: buffer number -> cursor line of its window
  nextBuf,                \* host: number of the next buffer created
  done,                   \* what the last call on the task did (see Report)
  undoUnit                \* host: the writes of a complete task to its buffer since
                          \* the last undo break made in that buffer

taskVars == <<task, bufnr, linenr, currLine, originalBufnr, originalRange, aiBufnr,
              origTempBufnr, reasonBlock, accumulatedContent, pcRun>>
nvimVars == <<buffers, tabs, curTab, cursor, nextBuf>>
editVars == <<taskVars, received, nvimVars, done, undoUnit>>

VARIABLES
  roleNames,              \* resolve: the role names of the request, in order
  roleTask,               \* resolve: the task the options are resolved for
  rolesDone,              \* resolve: how many names have been merged
  options,                \* resolve: the configuration merged so far
  prompt,                 \* resolve: the roles whose prompt text has been appended
  configError             \* resolve: an unknown name was met

roleVars == <<roleNames, roleTask, rolesDone, options, prompt, configError>>

vars == <<providerVars, editVars, roleVars>>

\* The record of one handler run: op names the path it took, id the timer handle
\* it ran for (0: none), result the value provideCompletionItems returned, answer
\* what the awaited call answered, calls the host and engine calls it issued,
\* rejected whether its promise rejected.
Did(op, id, result, answer, calls, rejected) ==
  [op |-> op, id |-> id, result |-> result, answer |-> answer, calls |-> calls,
   rejected |-> rejected]

ModeAnswer(m) == [kind |-> "mode", text |-> <<m>>]

\* the provider after construction, the setting coc-ai.completion.enabled in en
ProviderStarts(en) ==
  /\ enabled \in en
  /\ cachedCompletion = Null
  /\ currentRequestTimeout = 0
  /\ timers = {}
  /\ nextId = 1
  /\ closure = [i \in Ids |-> NoClosure]
  /\ pc = [i \in Ids |-> "none"]
  /\ lastCall = NoClosure
  /\ served = {}
  /\ docVersion = [d \in Docs |-> 1]
  /\ last = Did("init", 0, <<>>, NoAnswer, {}, FALSE)

\* clearTimeout(handle): the host drops the timer if it is still pending
ClearTimeoutNone(ts, handle) == ts
ClearTimeout(ts, handle) == ts \ {handle}

\* the cache test of provideCompletionItems
CacheHitAnyVersion(c, version, position) ==
  /\ position.line = c.position.line
  /\ position.character = c.position.character
CacheHit(c, version, position) ==
  /\ version = c.documentVersion
  /\ position.line = c.position.line
  /\ position.character = c.position.character

\* the stale test of provideCompletionItems
CacheStale(c, version) == version > c.documentVersion

\* cachedCompletion after a request that sees the item c in the cache
CacheAfterKeep(c, version, position) == c
CacheAfter(c, version, position) ==
  IF CacheHit(c, version, position) THEN Null
  ELSE IF CacheStale(c, version) THEN Null
  ELSE c

\* scheduleFetch(document, position)
scheduleFetch(d, v, p) ==
  /\ nextId <= MaxCalls
  /\ timers' = (IF currentRequestTimeout # 0
                THEN ClearTimeout(timers, currentRequestTimeout)
                ELSE timers) \cup {nextId}
  /\ currentRequestTimeout' = nextId
  /\ closure' = [i \in Ids |->
                   IF i = nextId THEN [uri |-> d, version |-> v, position |-> p]
                   ELSE IF i \in timers /\ i \notin timers' THEN NoClosure
                   ELSE closure[i]]
  /\ pc' = [i \in Ids |->
              IF i = nextId THEN "timer"
              ELSE IF i \in timers /\ i \notin timers' THEN "cleared"
              ELSE pc[i]]
  /\ nextId' = nextId + 1

\* provideCompletionItems(document, position, token, context)
provideCompletionItems(d, p) ==
  /\ LET v == docVersion[d] IN
     IF enabled = FALSE
     THEN /\ last' = Did("disabled", 0, <<>>, NoAnswer, {}, FALSE)
          /\ UNCHANGED <<cachedCompletion, currentRequestTimeout, timers, nextId,
                         closure, pc, served, lastCall>>
     ELSE IF cachedCompletion # Null /\ CacheHit(cachedCompletion, v, p)
     THEN /\ cachedCompletion' = CacheAfter(cachedCompletion, v, p)
          /\ last' = Did("hit", 0, <<cachedCompletion.item>>, NoAnswer, {}, FALSE)
          /\ served' = served \cup {[fetch |-> cachedCompletion.item.fetch,
                                     position |-> cachedCompletion.position,
                                     documentVersion |-> cachedCompletion.documentVersion]}
          /\ UNCHANGED <<currentRequestTimeout, timers, nextId, closure, pc, lastCall>>
     ELSE /\ cachedCompletion' = IF cachedCompletion = Null THEN Null
                                 ELSE CacheAfter(cachedCompletion, v, p)
          /\ scheduleFetch(d, v, p)
          /\ lastCall' = [uri |-> d, version |-> v, position |-> p]
          /\ last' = Did(IF cachedCompletion = Null THEN "miss"
                         ELSE IF cachedCompletion' = Null THEN "stale" ELSE "kept",
                         currentRequestTimeout', <<>>, NoAnswer, {"setTimeout"}, FALSE)
          /\ UNCHANGED served
  /\ UNCHANGED <<enabled, docVersion>>
  /\ UNCHANGED <<editVars, roleVars>>

\* the timer callback runs: fetchCompletion up to its first await (nvim 'mode');
\* it returns at once when workspace.getDocument does not resolve the document
\* (resolved: whether the document is still loaded when the timer fires)
TimerFires(i, resolved) ==
  /\ i \in timers
  /\ timers' = timers \ {i}
  /\ lastCall' = NoClosure
  /\ IF resolved
     THEN /\ pc' = [pc EXCEPT ![i] = "mode"]
          /\ last' = Did("fired", i, <<>>, NoAnswer, {"mode"}, FALSE)
          /\ UNCHANGED closure
     ELSE /\ pc' = [pc EXCEPT ![i] = "end"]
          /\ last' = Did("nodoc", i, <<>>, NoAnswer, {}, FALSE)
          /\ closure' = [closure EXCEPT ![i] = NoClosure]
  /\ UNCHANGED <<enabled, cachedCompletion, currentRequestTimeout, nextId, served,
                 docVersion>>
  /\ UNCHANGED <<editVars, roleVars>>

\* fetchCompletion's test of the mode nvim answered
InsertModeAlways(m) == TRUE
InsertMode(m) == m = "i"

\* nvim answers 'mode' with m: outside insert mode the fetch returns, otherwise it
\* builds the request and calls engine.execute
ModeAnswered(i, m) ==
  /\ pc[i] = "mode"
  /\ IF InsertMode(m)
     THEN /\ pc' = [pc EXCEPT ![i] = "execute"]
          /\ last' = Did("requested", i, <<>>, ModeAnswer(m), {"execute"}, FALSE)
          /\ UNCHANGED closure
     ELSE /\ pc' = [pc EXCEPT ![i] = "end"]
          /\ last' = Did("discarded", i, <<>>, ModeAnswer(m), {}, FALSE)
          /\ closure' = [closure EXCEPT ![i] = NoClosure]
  /\ UNCHANGED <<enabled, cachedCompletion, currentRequestTimeout, timers, nextId,
                 lastCall, served, docVersion>>
  /\ UNCHANGED <<editVars, roleVars>>

\* !completionText.trim()
IsBlankUntrimmed(text) == text = <<>>
IsBlank(text) == Trim(text) = <<>>

\* the completion item fetchCompletion builds (a fresh object per fetch)
MakeItem(i, text) == [fetch |-> i, insertText |-> text]

\* the try/catch around engine.execute: TRUE when the rejection is swallowed
Catches(o) == o.kind = "error"

\* engine.execute settles and fetchCompletion resumes: a rejection or a blank text
\* ends the fetch, any other text is stored in the cache and nvim is asked for the
\* mode again
ExecuteReturns(i, o) ==
  /\ pc[i] = "execute"
  /\ closure' = [closure EXCEPT ![i] = NoClosure]
  /\ IF o.kind = "error"
     THEN /\ pc' = [pc EXCEPT ![i] = "end"]
          /\ last' = Did("failed", i, <<>>, o, {}, ~Catches(o))
          /\ UNCHANGED cachedCompletion
     ELSE IF IsBlank(o.text)
     THEN /\ pc' = [pc EXCEPT ![i] = "end"]
          /\ last' = Did("empty", i, <<>>, o, {}, FALSE)
          /\ UNCHANGED cachedCompletion
     ELSE /\ cachedCompletion' = [position |-> closure[i].position,
                                  documentVersion |-> closure[i].version,
                                  item |-> MakeItem(i, o.text)]
          /\ pc' = [pc EXCEPT ![i] = "mode2"]
          /\ last' = Did("stored", i, <<>>, o, {"mode"}, FALSE)
  /\ UNCHANGED <<enabled, currentRequestTimeout, timers, nextId, lastCall, served,
                 docVersion>>
  /\ UNCHANGED <<editVars, roleVars>>

\* nvim answers the second 'mode' with m: in insert mode coc#start is called
SecondModeAnswered(i, m) ==
  /\ pc[i] = "mode2"
  /\ pc' = [pc EXCEPT ![i] = "end"]
  /\ last' = IF m = "i"
             THEN Did("shown", i, <<>>, ModeAnswer(m), {"coc#start"}, FALSE)
             ELSE Did("hidden", i, <<>>, ModeAnswer(m), {}, FALSE)
  /\ UNCHANGED <<enabled, cachedCompletion, currentRequestTimeout, timers, nextId,
                 closure, lastCall, served, docVersion>>
  /\ UNCHANGED <<editVars, roleVars>>

\* host: the user edits a document, its version grows
DocumentChanges(d) ==
  /\ docVersion["a"] + docVersion["b"] - 2 < MaxChanges
  /\ docVersion' = [docVersion EXCEPT ![d] = @ + 1]
  /\ UNCHANGED <<enabled, cachedCompletion, currentRequestTimeout, timers, nextId,
                 closure, pc, lastCall, served, last>>
  /\ UNCHANGED <<editVars, roleVars>>

NextProvider ==
  \/ \E d \in Docs, p \in Positions : provideCompletionItems(d, p)
  \/ \E i \in Ids, resolved \in BOOLEAN : TimerFires(i, resolved)
  \/ \E i \in Ids, m \in Modes : ModeAnswered(i, m)
  \/ \E i \in Ids, o \in ExecuteOutcomes : ExecuteReturns(i, o)
  \/ \E i \in Ids, m \in Modes : SecondModeAnswered(i, m)
  \/ \E d \in Docs : DocumentChanges(d)


(* ============================== AIEdit ================================== *)

\* chunks one stream delivers at most
MaxChunks == 2

\* diff views one task opens at most
MaxViews == 2
MaxRoles == 2

\* INSTRUCTIONS: the header of both views (each header line one token)
INSTRUCTIONS == << <<"# AI Edit: <Enter> Apply, q Cancel">>,
                   <<"# --------------------------------------------------">>,
                   <<>> >>

\* the user's buffers and what they hold when the task starts
UserBufs == {1, 2}
OrigLines == << <<"a", "b", "c">>, <<"d", "e">>, <<"f">> >>
OtherLines == << <<"z">> >>

NoRange == [kind |-> "none", start |-> <<0, 0>>, end |-> <<0, 0>>]

\* the IEditRange values run() is called with: in bounds, past the last line,
\* end before start, end column past the line
EditRanges ==
  { [kind |-> "line",   start |-> <<1, 1>>, end |-> <<1, 1>>],
    [kind |-> "line",   start |-> <<2, 1>>, end |-> <<3, 1>>],
    [kind |-> "line",   start |-> <<3, 1>>, end |-> <<5, 1>>],
    [kind |-> "line",   start |-> <<2, 1>>, end |-> <<1, 1>>],
    [kind |-> "visual", start |-> <<1, 2>>, end |-> <<1, 3>>],
    [kind |-> "visual", start |-> <<1, 3>>, end |-> <<2, 1>>],
    [kind |-> "visual", start |-> <<2, 1>>, end |-> <<2, 5>>] }

\* the selection texts run() is called with
Selections == {<<>>, <<"d", "e">>}

\* the chunks engine.generate yields: content that is a word, a carriage return
\* or a line feed and a word (so that a line break, "\n" or "\r\n", can fall on a
\* chunk boundary), and reasoning of two lines
ChunkTexts == {<<"x">>, <<"\r">>, <<"\n", "y">>}
ReasonTexts == {<<"x", "\n", "y">>}
Chunks == [type : {"content"}, content : ChunkTexts]
            \cup [type : {"reasoning_content"}, content : ReasonTexts]

\* The record of one call on the task: op names the call, calls lists the host and
\* engine calls it issued in order, rejected whether its promise rejected.
Report(op, calls, rejected) == [op |-> op, calls |-> calls, rejected |-> rejected]

\* a tab page: the buffers of its windows, left to right, and the current window
Tab(wins, cur) == [wins |-> wins, cur |-> cur]

\* the task after construction: its kind in kinds, the user's tab pages and
\* cursors in pages and cursors
EditStarts(kinds, pages, cursors) ==
  /\ task \in kinds
  /\ bufnr = -1
  /\ linenr = -1
  /\ currLine = <<>>
  /\ originalBufnr = -1
  /\ originalRange = NoRange
  /\ aiBufnr = -1
  /\ origTempBufnr = -1
  /\ reasonBlock = <<>>
  /\ accumulatedContent = <<>>
  /\ pcRun = "idle"
  /\ received = <<>>
  /\ buffers = [b \in UserBufs |-> IF b = 1 THEN OrigLines ELSE OtherLines]
  /\ tabs \in pages
  /\ curTab = 1
  /\ cursor \in cursors
  /\ nextBuf = 3
  /\ done = Report("new", <<>>, FALSE)
  /\ undoUnit = <<>>


(* --------------------------- role chains -------------------------------- *)

\* the names a request may carry: three sections of the role file (explain and
\* review have the shape of grammar) and one name no section defines
RoleNames == {"grammar", "refactor", "r1", "nosuch"}

RoleTasks == {"chat", "edit", "complete"}

Chains == UNION {[1..n -> RoleNames] : n \in 0..MaxRoles}

\* an option group that specifies nothing
NoOptions == [f \in {} |-> 0]

\* the base configuration; temperatures are in tenths
Base == [model |-> "base-model", temperature |-> 10, requestTimeout |-> 10,
         initialPrompt |-> "base-prompt"]

NoR1Model == [temperature |-> 6, requestTimeout |-> 20, initialPrompt |-> ""]

RolesR1WithoutModel ==
  [grammar  |-> [prompt |-> TRUE, options |-> NoOptions, chat |-> NoOptions,
                 edit |-> NoOptions, complete |-> NoOptions],
   refactor |-> [prompt |-> TRUE, options |-> [temperature |-> 4],
                 chat |-> [model |-> "deepseek-chat"],
                 edit |-> NoOptions, complete |-> NoOptions],
   r1       |-> [prompt |-> FALSE, options |-> NoR1Model, chat |-> NoOptions,
                 edit |-> NoOptions, complete |-> NoOptions]]

\* the role file: per section whether it has a prompt, its generic options and
\* its options per task
Roles ==
  [grammar  |-> [prompt |-> TRUE, options |-> NoOptions, chat |-> NoOptions,
                 edit |-> NoOptions, complete |-> NoOptions],
   refactor |-> [prompt |-> TRUE, options |-> [temperature |-> 4],
                 chat |-> [model |-> "deepseek-chat"],
                 edit |-> NoOptions, complete |-> NoOptions],
   r1       |-> [prompt |-> FALSE,
                 options |-> [model |-> "deepseek-reasoner", temperature |-> 6,
                              requestTimeout |-> 20, initialPrompt |-> ""],
                 chat |-> NoOptions, edit |-> NoOptions, complete |-> NoOptions]]

\* field by field: only the fields opts specifies overwrite
MergeOptions(cfg, opts) ==
  [f \in DOMAIN cfg |-> IF f \in DOMAIN opts THEN opts[f] ELSE cfg[f]]

\* one role: its generic options, then its options for the task
MergeRole(cfg, name, t) ==
  MergeOptions(MergeOptions(cfg, Roles[name].options), Roles[name][t])

RolesStart(chains, tasks) ==
  /\ roleNames \in chains
  /\ roleTask \in tasks
  /\ rolesDone = 0
  /\ options = Base
  /\ prompt = <<>>
  /\ configError = FALSE

\* resolve, one name of the chain at a time
ResolveNext ==
  /\ ~configError
  /\ rolesDone < Len(roleNames)
  /\ LET name == roleNames[rolesDone + 1] IN
       IF name \in DOMAIN Roles
       THEN /\ options' = MergeRole(options, name, roleTask)
            /\ prompt' = IF Roles[name].prompt THEN Append(prompt, name) ELSE prompt
            /\ rolesDone' = rolesDone + 1
            /\ UNCHANGED configError
       ELSE /\ configError' = TRUE
            /\ UNCHANGED <<options, prompt, rolesDone>>
  /\ UNCHANGED <<roleNames, roleTask>>
  /\ UNCHANGED <<providerVars, editVars>>

\* the provider under every setting, beside an edit task nobody runs
InitProvider ==
  /\ ProviderStarts(BOOLEAN)
  /\ EditStarts({"edit"}, {<<Tab(<<1>>, 1)>>}, {[b \in UserBufs |-> 1]})
  /\ RolesStart({<<>>}, {"edit"})

\* a task of either kind beside an enabled provider nobody calls: the user has one
\* or two tab pages; the cursor, which only a complete task reads, is on the first
\* or the second line
InitEdit ==
  /\ \/ EditStarts({"edit"},
                    {<<Tab(<<1>>, 1)>>, <<Tab(<<1>>, 1), Tab(<<2>>, 1)>>},
                    {[b \in UserBufs |-> 1]})
     \/ EditStarts({"complete"},
                    {<<Tab(<<1>>, 1)>>, <<Tab(<<1>>, 1), Tab(<<2>>, 1)>>},
                    {[b \in UserBufs |-> 1], [b \in UserBufs |-> IF b = 1 THEN 2 ELSE 1]})
  /\ ProviderStarts({TRUE})
  /\ RolesStart({<<>>}, {"edit"})

(* ------------------------------ host ----------------------------------- *)

CurBuf == tabs[curTab].wins[tabs[curTab].cur]

InsertAt(seq, idx, x) == SubSeq(seq, 1, idx) \o <<x>> \o SubSeq(seq, idx + 1, Len(seq))
RemoveAt(seq, idx) == SubSeq(seq, 1, idx - 1) \o SubSeq(seq, idx + 1, Len(seq))

\* the buffers shown in some window of the tab pages ts
Shown(ts) == UNION {{ts[t].wins[w] : w \in 1..Len(ts[t].wins)} : t \in 1..Len(ts)}

\* :tabclose -- fails on the last tab page (E784); otherwise the current tab page
\* goes, the following one (or the last) becomes current, and the scratch buffers
\* (bufhidden=wipe) no window shows any more are wiped
TabClosed ==
  IF Len(tabs) = 1
  THEN [failed |-> TRUE, tabs |-> tabs, curTab |-> curTab, buffers |-> buffers]
  ELSE LET ts == RemoveAt(tabs, curTab)
           keep == {b \in DOMAIN buffers : b \in UserBufs \/ b \in Shown(ts)}
       IN [failed |-> FALSE,
           tabs |-> ts,
           curTab |-> IF curTab > Len(ts) THEN Len(ts) ELSE curTab,
           buffers |-> [b \in keep |-> buffers[b]]]

\* setbufline(buf, lnum, text) on the lines ls
SetBufLine(ls, lnum, text) ==
  IF lnum \in 1..Len(ls) THEN [ls EXCEPT ![lnum] = text]
  ELSE IF lnum = Len(ls) + 1 THEN Append(ls, text)
  ELSE ls

\* appendbufline(buf, lnum, lines) on the lines ls
AppendBufLine(ls, lnum, new) ==
  IF lnum \in 0..Len(ls)
  THEN SubSeq(ls, 1, lnum) \o new \o SubSeq(ls, lnum + 1, Len(ls))
  ELSE ls

\* the text of a document whose buffer holds the lines ls
DocText(ls) == JoinLines(ls) \o <<"\n">>

RECURSIVE LineOffset(_, _)
LineOffset(ls, line) ==
  IF line = 0 THEN 0 ELSE LineOffset(ls, line - 1) + Len(ls[line]) + 1

Min(a, b) == IF a < b THEN a ELSE b
Max(a, b) == IF a > b THEN a ELSE b

\* TextDocument.offsetAt for a 0-based position, clamped to the document
OffsetAt(ls, line, character) ==
  IF line >= Len(ls) THEN Len(DocText(ls))
  ELSE IF line < 0 THEN 0
  ELSE LET lo == LineOffset(ls, line)
           next == lo + Len(ls[line + 1]) + 1
       IN Max(Min(lo + character, next), lo)

\* doc.applyEdits([TextEdit.replace(range, text)]) on the lines ls: the text
\* between the two offsets (put in order) is replaced
ApplyReplace(ls, range, text) ==
  LET doc == DocText(ls)
      a == OffsetAt(ls, range.start.line, range.start.character)
      b == OffsetAt(ls, range.end.line, range.end.character)
      from == Min(a, b)
      to == Max(a, b)
      new == SubSeq(doc, 1, from) \o text \o SubSeq(doc, to + 1, Len(doc))
      split == SplitLFFrom(new, <<>>)
  IN IF new # <<>> /\ new[Len(new)] = "\n" THEN SubSeq(split, 1, Len(split) - 1)
     ELSE split

\* Range.create(startLine, startCharacter, endLine, endCharacter)
RangeCreate(sl, sc, el, ec) ==
  [start |-> [line |-> sl, character |-> sc], end |-> [line |-> el, character |-> ec]]

(* ------------------------------ AIEdit --------------------------------- *)

\* allLines.slice(INSTRUCTIONS.length)
SliceHeader(allLines) == SubSeq(allLines, Len(INSTRUCTIONS) + 1, Len(allLines))

\* apply(): the replace region of the stored range
ReplaceRangeEndDecremented(r) ==
  IF r.kind = "line"
  THEN RangeCreate(r.start[1] - 1, 0, r.end[1], 0)
  ELSE RangeCreate(r.start[1] - 1, r.start[2] - 1, r.end[1] - 1, r.end[2] - 1)
ReplaceRange(r) ==
  IF r.kind = "line"
  THEN RangeCreate(r.start[1] - 1, 0, r.end[1], 0)
  ELSE RangeCreate(r.start[1] - 1, r.start[2] - 1, r.end[1] - 1, r.end[2])

\* apply(): the replacement text built from the output view's lines
ReplaceTextNoBreak(r, lines) == JoinLines(lines)
ReplaceText(r, lines) ==
  IF r.kind = "line" THEN JoinLines(lines) \o <<"\n">> ELSE JoinLines(lines)

\* `"""${reasonBlock}"""`
Placeholder(block) == <<"\"", "\"", "\"">> \o block \o <<"\"", "\"", "\"">>

\* setupDiffView(selection): a new tab page after the current one with the output
\* view (left, current) and the original-selection view (right)
DiffTab == Tab(<<nextBuf, nextBuf + 1>>, 1)

\* run(): parseTaskRole throws for a role it cannot resolve, before setupDiffView
\* and engine.generate are reached, and run() catches nothing
RunThrowsNever(roleOk) == FALSE
RunThrows(roleOk) == ~roleOk

\* run(): an edit task called without a range returns before anything else
RunReturnsNever(range) == FALSE
RunReturns(range) == range = NoRange

\* run(selection, rawPrompt, range), called while the task is in one of the given
\* states; roleOk: parseTaskRole resolves the roles. reasonBlock and
\* accumulatedContent are locals of the call, received the chunks of its stream
runWhen(states, selection, range, roleOk) ==
  /\ pcRun \in states
  /\ task = "complete" => range = NoRange
  /\ bufnr' = CurBuf
  /\ IF task = "complete"
     THEN /\ linenr' = cursor[CurBuf]
          /\ currLine' = buffers[CurBuf][cursor[CurBuf]]
          /\ UNCHANGED <<originalBufnr, originalRange>>
     ELSE /\ UNCHANGED <<linenr, currLine>>
          /\ IF RunReturns(range)
             THEN UNCHANGED <<originalBufnr, originalRange>>
             ELSE originalBufnr' = CurBuf /\ originalRange' = range
  /\ IF task = "edit" /\ RunReturns(range)
     THEN /\ pcRun' = "returned"
          /\ done' = Report("run", <<>>, FALSE)
          /\ UNCHANGED <<aiBufnr, origTempBufnr, nvimVars>>
          \* the return is above the declarations of run()'s locals
          /\ UNCHANGED <<reasonBlock, accumulatedContent, received>>
     ELSE /\ reasonBlock' = <<>>
          /\ accumulatedContent' = <<>>
          /\ received' = <<>>
  /\ IF task = "edit" /\ RunReturns(range)
     THEN TRUE
     ELSE IF RunThrows(roleOk)
     THEN /\ pcRun' = "rejected"
          /\ done' = Report("run", <<"parseTaskRole">>, TRUE)
          /\ UNCHANGED <<aiBufnr, origTempBufnr, nvimVars>>
     ELSE IF task = "edit"
     THEN /\ pcRun' = "streaming"
          /\ aiBufnr' = nextBuf
          /\ origTempBufnr' = nextBuf + 1
          /\ buffers' = [b \in DOMAIN buffers \cup {nextBuf, nextBuf + 1} |->
                           IF b = nextBuf THEN INSTRUCTIONS
                           ELSE IF b = nextBuf + 1
                           THEN INSTRUCTIONS \o SplitLines(selection)
                           ELSE buffers[b]]
          /\ tabs' = InsertAt(tabs, curTab, DiffTab)
          /\ curTab' = curTab + 1
          /\ nextBuf' = nextBuf + 2
          /\ done' = Report("run", <<"parseTaskRole", "tabnew", "setBufferLines",
                                     "vsplit", "setBufferLines", "generate">>, FALSE)
          /\ UNCHANGED cursor
     ELSE /\ pcRun' = "streaming"
          /\ done' = Report("run", <<"parseTaskRole", "generate">>, FALSE)
          /\ UNCHANGED <<aiBufnr, origTempBufnr, nvimVars>>
  /\ UNCHANGED <<task, undoUnit>>
  /\ UNCHANGED <<providerVars, roleVars>>

\* the first run() on the task
run(selection, range, roleOk) == runWhen({"idle"}, selection, range, roleOk)

\* run() on a task whose earlier run() has resolved
runAgain(selection, range, roleOk) ==
  /\ nextBuf < 3 + 2 * MaxViews
  /\ runWhen({"ended"}, selection, range, roleOk)

\* append(value): the lines of the task's buffer after it, and the new linenr
AppendLines(ls, value) ==
  LET newlines == SplitLines(value)
      lastline == currLine \o newlines[1]
      rest == Tail(newlines)
      set == SetBufLine(ls, linenr, lastline)
  IN IF rest # <<>> THEN AppendBufLine(set, linenr, rest) ELSE set

AppendLinenr(value) == linenr + Len(Tail(SplitLines(value)))

\* breakUndoSequence(): the buffer the undo break is made in. The call goes to the
\* window bufwinid(bufnr) gives when the task's buffer is not current; bufwinid
\* looks at the windows of the current tab page only, and the break is made in
\* the current window when it finds none. (A complete task opens no window, so
\* every tab page has one window and no window changes.)
UndoBreakBuf ==
  IF bufnr \in {tabs[curTab].wins[w] : w \in 1..Len(tabs[curTab].wins)}
  THEN bufnr ELSE CurBuf

\* breakUndoSequence(): the open undo unit of the task's buffer after it
UndoBroken(unit) == IF UndoBreakBuf = bufnr THEN <<>> ELSE unit

\* run(): the lines the output view is rewritten with, for the text accumulated
ViewLinesNoHeader(accumulated) == SplitLines(accumulated)
ViewLines(accumulated) == INSTRUCTIONS \o SplitLines(accumulated)

\* run(): one turn of the loop over the stream, for the chunk c
Chunk(c) ==
  /\ pcRun = "streaming"
  /\ Len(received) < MaxChunks
  /\ received' = Append(received, c)
  /\ IF c.type = "reasoning_content"
     THEN /\ reasonBlock' = reasonBlock \o CollapseLines(c.content)
          /\ IF task = "complete"
             THEN /\ buffers' = [buffers EXCEPT ![bufnr] =
                                   SetBufLine(@, linenr, Placeholder(reasonBlock'))]
                  /\ undoUnit' = Append(undoUnit, "placeholder")
                  /\ done' = Report("chunk", <<"setbufline">>, FALSE)
             ELSE /\ done' = Report("chunk", <<>>, FALSE)
                  /\ UNCHANGED <<buffers, undoUnit>>
          /\ UNCHANGED <<linenr, currLine, accumulatedContent, cursor>>
     ELSE IF task = "complete"
     THEN /\ reasonBlock' = <<>>
          /\ undoUnit' = Append(IF reasonBlock # <<>> THEN UndoBroken(undoUnit)
                                 ELSE undoUnit, "content")
          /\ buffers' = [buffers EXCEPT ![bufnr] = AppendLines(@, c.content)]
          /\ linenr' = AppendLinenr(c.content)
          \* normal! ${linenr}G$ moves the cursor of the current window
          /\ cursor' = IF CurBuf \in UserBufs
                       THEN [cursor EXCEPT ![CurBuf] =
                               Min(linenr', Len(buffers'[CurBuf]))]
                       ELSE cursor
          \* getline('.') reads the cursor line of the current window
          /\ currLine' = IF CurBuf \in UserBufs
                         THEN buffers'[CurBuf][cursor'[CurBuf]]
                         ELSE buffers'[CurBuf][1]
          /\ done' = Report("chunk",
                            (IF reasonBlock # <<>> THEN <<"undobreak">> ELSE <<>>)
                              \o <<"setbufline">>
                              \o (IF Tail(SplitLines(c.content)) # <<>>
                                  THEN <<"appendbufline">> ELSE <<>>)
                              \o <<"normal", "getline">>, FALSE)
          /\ UNCHANGED accumulatedContent
     ELSE /\ accumulatedContent' = accumulatedContent \o c.content
          /\ IF aiBufnr \in DOMAIN buffers
             THEN buffers' = [buffers EXCEPT ![aiBufnr] = ViewLines(accumulatedContent')]
             ELSE UNCHANGED buffers
          /\ done' = Report("chunk", <<"setBufferLines", "moveToLineEnd">>, FALSE)
          /\ UNCHANGED <<reasonBlock, linenr, currLine, cursor, undoUnit>>
  /\ UNCHANGED <<task, bufnr, originalBufnr, originalRange, aiBufnr, origTempBufnr,
                 pcRun, tabs, curTab, nextBuf>>
  /\ UNCHANGED <<providerVars, roleVars>>

\* run(): the stream is exhausted, the loop ends and run() resolves
StreamEnds ==
  /\ pcRun = "streaming"
  /\ pcRun' = "ended"
  /\ done' = Report("end", IF task = "complete" THEN <<"undobreak">> ELSE <<>>, FALSE)
  /\ undoUnit' = IF task = "complete" THEN UndoBroken(undoUnit) ELSE undoUnit
  /\ UNCHANGED <<task, bufnr, linenr, currLine, originalBufnr, originalRange, aiBufnr,
                 origTempBufnr, reasonBlock, accumulatedContent, received, nvimVars>>
  /\ UNCHANGED <<providerVars, roleVars>>

\* engine.generate: while the stream is consumed, a network failure or a timeout
\* surfaces as an error thrown to the consumer
GenerateThrows == pcRun = "streaming"

\* run(): the stream throws; nothing in run() catches it, so run() rejects
StreamFails ==
  /\ GenerateThrows
  /\ pcRun' = "failed"
  /\ done' = Report("fail", <<>>, TRUE)
  /\ UNCHANGED <<task, bufnr, linenr, currLine, originalBufnr, originalRange, aiBufnr,
                 origTempBufnr, reasonBlock, accumulatedContent, received, nvimVars,
                 undoUnit>>
  /\ UNCHANGED <<providerVars, roleVars>>

\* close()
close ==
  /\ IF task # "edit"
     THEN /\ done' = Report("close", <<>>, FALSE)
          /\ UNCHANGED <<aiBufnr, origTempBufnr, buffers, tabs, curTab>>
     ELSE /\ tabs' = TabClosed.tabs
          /\ curTab' = TabClosed.curTab
          /\ buffers' = TabClosed.buffers
          /\ aiBufnr' = -1
          /\ origTempBufnr' = -1
          /\ done' = Report("close", <<"tabclose">>, FALSE)
  /\ UNCHANGED <<task, bufnr, linenr, currLine, originalBufnr, originalRange,
                 reasonBlock, accumulatedContent, pcRun, received, cursor, nextBuf,
                 undoUnit>>
  /\ UNCHANGED <<providerVars, roleVars>>

\* apply(): the guard it returns under at once
ApplyReturnsOnlyComplete == task # "edit"
ApplyReturns == task # "edit" \/ aiBufnr = -1

\* apply(); resolved: workspace.getDocument finds the original document
apply(resolved) ==
  /\ IF ApplyReturns
     THEN /\ done' = Report("apply", <<>>, FALSE)
          /\ UNCHANGED <<aiBufnr, origTempBufnr, buffers, tabs, curTab>>
     ELSE LET allLines == IF aiBufnr \in DOMAIN buffers THEN buffers[aiBufnr] ELSE <<>>
              lines == SliceHeader(allLines)
              h == TabClosed
              wins == h.tabs[h.curTab].wins
              inTab == {w \in 1..Len(wins) : wins[w] = originalBufnr}
              \* win_gotoid(bufwinid(originalBufnr)), or :buffer originalBufnr
              focused == IF inTab # {}
                         THEN [h.tabs EXCEPT ![h.curTab].cur =
                                 CHOOSE w \in inTab : \A x \in inTab : w <= x]
                         ELSE [h.tabs EXCEPT ![h.curTab].wins[h.tabs[h.curTab].cur] =
                                 originalBufnr]
              focus == IF inTab # {} THEN <<"bufwinid", "win_gotoid">>
                       ELSE <<"bufwinid", "buffer">>
              kept == {b \in DOMAIN h.buffers : b \in UserBufs \/ b \in Shown(focused)}
              left == [b \in kept |-> h.buffers[b]]
          IN /\ aiBufnr' = -1
             /\ origTempBufnr' = -1
             /\ tabs' = focused
             /\ curTab' = h.curTab
             /\ IF originalRange = NoRange
                THEN /\ buffers' = left
                     /\ done' = Report("apply", <<"getBufferLines", "tabclose">> \o focus
                                         \o <<"undobreak", "undobreak">>, FALSE)
                ELSE IF ~resolved
                THEN /\ buffers' = left
                     /\ done' = Report("apply", <<"getBufferLines", "tabclose">> \o focus
                                         \o <<"undobreak", "getDocument">>, FALSE)
                ELSE /\ buffers' = [left EXCEPT ![originalBufnr] =
                                      ApplyReplace(@, ReplaceRange(originalRange),
                                                   ReplaceText(originalRange, lines))]
                     /\ done' = Report("apply", <<"getBufferLines", "tabclose">> \o focus
                                         \o <<"undobreak", "getDocument", "applyEdits",
                                              "undobreak">>, FALSE)
  /\ UNCHANGED <<task, bufnr, linenr, currLine, originalBufnr, originalRange,
                 reasonBlock, accumulatedContent, pcRun, received, cursor, nextBuf,
                 undoUnit>>
  /\ UNCHANGED <<providerVars, roleVars>>

\* host: the user goes to another tab page
UserSwitchesTab(t) ==
  /\ t \in 1..Len(tabs)
  /\ t # curTab
  /\ curTab' = t
  /\ UNCHANGED <<taskVars, received, buffers, tabs, cursor, nextBuf, done, undoUnit>>
  /\ UNCHANGED <<providerVars, roleVars>>

NextEdit ==
  \/ \E sel \in Selections, r \in EditRanges \cup {NoRange}, ok \in BOOLEAN :
       run(sel, r, ok)
  \/ \E c \in Chunks : Chunk(c)
  \/ StreamEnds
  \/ StreamFails
  \/ close
  \/ \E resolved \in BOOLEAN : apply(resolved)
  \/ \E t \in 1..3 : UserSwitchesTab(t)

SpecProvider == InitProvider /\ [][NextProvider]_vars

SpecEdit == InitEdit /\ [][NextEdit]_vars

\* an edit task that is run again after its stream has ended, the user staying on
\* the tab page the task leaves them on
InitEditAgain ==
  /\ EditStarts({"edit"}, {<<Tab(<<1>>, 1)>>}, {[b \in UserBufs |-> 1]})
  /\ ProviderStarts({TRUE})
  /\ RolesStart({<<>>}, {"edit"})

NextEditAgain ==
  \/ \E sel \in Selections, r \in EditRanges \cup {NoRange}, ok \in BOOLEAN :
       run(sel, r, ok)
  \/ \E sel \in Selections, r \in EditRanges \cup {NoRange}, ok \in BOOLEAN :
       runAgain(sel, r, ok)
  \/ \E c \in Chunks : Chunk(c)
  \/ StreamEnds
  \/ StreamFails
  \/ close
  \/ \E resolved \in BOOLEAN : apply(resolved)

SpecEditAgain == InitEditAgain /\ [][NextEditAgain]_vars

\* an edit task that is run again, with or without a range, after its stream has
\* ended; every run that has a range has the same one, and the streams are made
\* of one content chunk and one reasoning chunk
RunChunks == {c \in Chunks : c.content \in {<<"x">>} \cup ReasonTexts}

RunRanges == {[kind |-> "line", start |-> <<2, 1>>, end |-> <<3, 1>>], NoRange}

InitRunAgain ==
  /\ EditStarts({"edit"}, {<<Tab(<<1>>, 1)>>}, {[b \in UserBufs |-> 1]})
  /\ ProviderStarts({TRUE})
  /\ RolesStart({<<>>}, {"edit"})

NextRunAgain ==
  \/ \E sel \in Selections, r \in RunRanges, ok \in BOOLEAN : run(sel, r, ok)
  \/ \E sel \in Selections, r \in RunRanges, ok \in BOOLEAN : runAgain(sel, r, ok)
  \/ \E c \in RunChunks : Chunk(c)
  \/ StreamEnds
  \/ close

SpecRunAgain == InitRunAgain /\ [][NextRunAgain]_vars

\* the resolution of every role chain for every task, beside a provider and an
\* edit task nobody calls
InitRoles ==
  /\ RolesStart(Chains, RoleTasks)
  /\ ProviderStarts({TRUE})
  /\ EditStarts({"edit"}, {<<Tab(<<1>>, 1)>>}, {[b \in UserBufs |-> 1]})

NextRoles == ResolveNext

SpecRoles == InitRoles /\ [][NextRoles]_vars


(* ===================== properties of the provider ====================== *)

\* a request for document d at position p while the provider is enabled
Request(d, p) == provideCompletionItems(d, p) /\ enabled

\* the request (d, p) has the position and version of the cached item
SameKey(d, p) ==
  /\ cachedCompletion # Null
  /\ cachedCompletion.position = p
  /\ cachedCompletion.documentVersion = docVersion[d]

\* an item was already returned for the position and version of (d, p)
ServedBefore(d, p) ==
  \E e \in served : e.position = p /\ e.documentVersion = docVersion[d]

\* C2 as stated: a request whose position and version equal the stored item's
\* returns exactly that item, and at every later request at the same position and
\* version the cache holds nothing for it (no second hit at that key).
C2_AnyLaterRequestMisses ==
  [][\A d \in Docs, p \in Positions :
       /\ (Request(d, p) /\ SameKey(d, p)) => last'.result = <<cachedCompletion.item>>
       /\ (Request(d, p) /\ ServedBefore(d, p)) => ~SameKey(d, p)]_vars

\* C2 amended: a request whose position and version equal the stored item's
\* returns exactly that item and leaves the cache empty when it returns, and no
\* stored item (the item one fetch stored) is ever returned twice.
C2_HitIsOneShot ==
  [][\A d \in Docs, p \in Positions :
       (Request(d, p) /\ SameKey(d, p)) =>
          /\ last'.result = <<cachedCompletion.item>>
          /\ cachedCompletion' = Null
          /\ cachedCompletion.item.fetch \notin {e.fetch : e \in served}]_vars

\* C2 witness: an item was returned by a hit and the cache is empty
C2_Witness ==
  /\ last.op = "hit"
  /\ Len(last.result) = 1
  /\ cachedCompletion = Null
  /\ last.result[1].fetch \in {e.fetch : e \in served}

\* the request (d, p) meets a cached item of another document version
OtherVersion(d) ==
  /\ cachedCompletion # Null
  /\ cachedCompletion.documentVersion # docVersion[d]

\* C3 as stated: a request whose version differs from the cached item's returns
\* nothing from the cache and leaves the cache without the item, whatever the
\* mismatching version is.
C3_AnyMismatchInvalidates ==
  [][\A d \in Docs, p \in Positions :
       (Request(d, p) /\ OtherVersion(d)) =>
          /\ last'.result = <<>>
          /\ cachedCompletion' = Null]_vars

\* C3 amended: a request whose version differs from the cached item's never
\* returns the cached item; it drops the item when its version is greater than the
\* item's and keeps the item cached when its version is smaller.
C3_NewerVersionInvalidates ==
  [][\A d \in Docs, p \in Positions :
       (Request(d, p) /\ OtherVersion(d)) =>
          /\ last'.result = <<>>
          /\ docVersion[d] > cachedCompletion.documentVersion => cachedCompletion' = Null
          /\ docVersion[d] < cachedCompletion.documentVersion =>
               cachedCompletion' = cachedCompletion]_vars

\* C3 witness: a request of a newer version has just dropped the cached item
C3_Witness ==
  /\ last.op = "stale"
  /\ last.result = <<>>
  /\ cachedCompletion = Null

\* C4: at most one debounce timer is pending; the timer that fires is the one of
\* the last scheduleFetch call and runs the fetch with that call's document and
\* position; a timer replaced by a later call never fires.
C4_Debounce ==
  /\ [](Cardinality(timers) <= 1)
  /\ [](\A i \in Ids : i \in timers => i = currentRequestTimeout)
  /\ [][\A i \in Ids :
          /\ (\E r \in BOOLEAN : TimerFires(i, r)) => (i = currentRequestTimeout /\ closure[i] = lastCall)
          /\ pc[i] = "cleared" => pc'[i] = "cleared"]_vars

\* C4 witness: two calls in one quiescence window, the first timer was cleared and
\* the second one fired
C4_Witness ==
  /\ \E i \in Ids : pc[i] = "cleared" /\ i < last.id
  /\ last.op = "fired"
  /\ timers = {}

\* C5: a fetch superseded by a later scheduleFetch call before it completes
\* neither stores its result in the cache nor calls coc#start.
C5_SupersededFetchAbandoned ==
  [][\A i \in Ids :
       /\ (\E o \in ExecuteOutcomes : ExecuteReturns(i, o) /\ last'.op = "stored")
            => i = currentRequestTimeout
       /\ (\E m \in Modes : SecondModeAnswered(i, m) /\ "coc#start" \in last'.calls)
            => i = currentRequestTimeout]_vars

\* C6: when nvim answers a mode other than insert to the fetch the timer started,
\* the fetch ends there: no engine call, no coc#start, the cache unchanged.
C6_DiscardOutsideInsert ==
  /\ [][\A i \in Ids, m \in Modes :
          (ModeAnswered(i, m) /\ m # "i") =>
             /\ last'.calls = {}
             /\ cachedCompletion' = cachedCompletion
             /\ pc'[i] = "end"]_vars
  /\ [][\A i \in Ids : pc[i] = "end" => pc'[i] = "end"]_vars

\* C6 witness: a fetch was discarded outside insert mode
C6_Witness ==
  /\ last.op = "discarded"
  /\ last.answer = ModeAnswer("n")
  /\ pc[last.id] = "end"

\* every character of the text is white space (the empty text included)
OnlyWhiteSpace(text) == \A k \in 1..Len(text) : text[k] \in WhiteSpace

\* C7: a fetch whose engine call fails or answers an empty or white-space-only
\* text ends silently: its promise does not reject, the cache is unchanged and no
\* host call (coc#start included) is issued.
C7_FailedFetchIsSilent ==
  [][\A i \in Ids, o \in ExecuteOutcomes :
       (ExecuteReturns(i, o) /\ (o.kind = "error" \/ OnlyWhiteSpace(o.text))) =>
          /\ ~last'.rejected
          /\ cachedCompletion' = cachedCompletion
          /\ last'.calls = {}
          /\ pc'[i] = "end"]_vars

\* C7 witness: a fetch ended on a white-space-only answer while an item was cached
C7_Witness ==
  /\ last.op = "empty"
  /\ last.answer.text # <<>>
  /\ cachedCompletion # Null

(* ---------------------- properties of the edit task --------------------- *)

\* the user's buffers hold what they held before the task started
BuffersUntouched == buffers[1] = OrigLines /\ buffers[2] = OtherLines

\* C1: close() on an edit task is idempotent -- a close() that follows a close()
\* issues no tab-closing operation to the host and changes neither the task's
\* state nor any buffer or tab page.
C1_SecondCloseIsNoOp ==
  [][(task = "edit" /\ done.op = "close" /\ close)
       => (done'.calls = <<>> /\ UNCHANGED <<taskVars, buffers, tabs, curTab>>)]_vars

\* C8: when the chunk stream of a complete task fails, run() does not propagate
\* the error and the target buffer bears no mutation from the task.
C8_NetworkErrorIsSilent ==
  (task = "complete" /\ done.op = "fail") => (~done.rejected /\ BuffersUntouched)

\* no content chunk has arrived
NoUsableContent == \A k \in 1..Len(received) : received[k].type # "content"

\* C9: when the stream ends without any content chunk (only reasoning chunks, or
\* none), every mutation is suppressed: the user's buffers equal their content from
\* before the task, and an edit task is left with no active view.
C9_EmptyResponseSuppressed ==
  (pcRun = "ended" /\ NoUsableContent)
    => (BuffersUntouched /\ (task = "edit" => aiBufnr = -1))

\* the range r lies inside the lines ls and its end does not precede its start
InBounds(r, ls) ==
  /\ 1 <= r.start[1] /\ r.start[1] <= r.end[1] /\ r.end[1] <= Len(ls)
  /\ r.kind = "visual" =>
       /\ 1 <= r.start[2] /\ r.start[2] <= Len(ls[r.start[1]])
       /\ 1 <= r.end[2] /\ r.end[2] <= Len(ls[r.end[1]])
       /\ r.start[1] = r.end[1] => r.start[2] <= r.end[2]

\* C10: an apply() whose stored range is out of bounds or inconsistent, or whose
\* original document cannot be resolved, mutates no buffer and leaves the diff view
\* intact: both views stay open and the task keeps its active view.
C10_FailedApplyLeavesViewIntact ==
  [][\A resolved \in BOOLEAN :
       (/\ task = "edit" /\ aiBufnr # -1
        /\ ~resolved \/ ~InBounds(originalRange, buffers[originalBufnr])
        /\ apply(resolved))
         => (/\ buffers' = buffers
             /\ tabs' = tabs
             /\ aiBufnr' = aiBufnr /\ origTempBufnr' = origTempBufnr)]_vars

\* apply() without effect: it issues no host call and changes neither a buffer,
\* a tab page nor the task
ApplyRefused == done'.calls = <<>> /\ UNCHANGED <<taskVars, buffers, tabs, curTab>>

\* C11: apply() takes effect only for an edit task with an active view. On a
\* complete task, or on an edit task whose view was never created or was already
\* applied or closed, it closes no view and replaces nothing; an apply() that does
\* replace leaves the task without a view, and only run() gives it a view again, so
\* the original buffer is replaced at most once per diff view.
C11_ApplyOnlyWithActiveView ==
  [][/\ \A resolved \in BOOLEAN :
          (apply(resolved) /\ (task # "edit" \/ aiBufnr = -1)) => ApplyRefused
     /\ \A resolved \in BOOLEAN :
          (apply(resolved) /\ done'.calls # <<>>) => (aiBufnr # -1 /\ aiBufnr' = -1)
     /\ (aiBufnr = -1 /\ aiBufnr' # -1) => done'.op = "run"]_vars

\* an apply() was refused after an earlier apply() or close() had ended the view
C11_Witness ==
  /\ task = "edit"
  /\ originalBufnr # -1
  /\ done = Report("apply", <<>>, FALSE)

\* where the call c stands in the list of calls a handler issued
CallsAt(calls, c) == {k \in 1..Len(calls) : calls[k] = c}

\* the call c was issued exactly once, and before it the call b exactly once
OnceAfter(calls, b, c) ==
  /\ Cardinality(CallsAt(calls, b)) = 1
  /\ Cardinality(CallsAt(calls, c)) = 1
  /\ \A i \in CallsAt(calls, b), j \in CallsAt(calls, c) : i < j

\* the lines of the output view below the fixed header
OutputLines == SubSeq(buffers[aiBufnr], Len(INSTRUCTIONS) + 1, Len(buffers[aiBufnr]))

\* C12: an apply() that replaces reads the output view's lines while the view is
\* open, drops exactly the header lines, closes both views and only then performs
\* exactly one replacement on the original buffer, its text built from the output
\* lines without the header; no other buffer is mutated.
C12_ApplyStepOrder ==
  [][\A resolved \in BOOLEAN :
       (apply(resolved) /\ CallsAt(done'.calls, "applyEdits") # {})
         => /\ aiBufnr \in DOMAIN buffers
            /\ OnceAfter(done'.calls, "getBufferLines", "tabclose")
            /\ OnceAfter(done'.calls, "tabclose", "applyEdits")
            /\ aiBufnr \notin DOMAIN buffers'
            /\ origTempBufnr \notin DOMAIN buffers'
            /\ buffers'[originalBufnr] =
                 ApplyReplace(buffers[originalBufnr], ReplaceRange(originalRange),
                              ReplaceText(originalRange, OutputLines))
            /\ \A b \in UserBufs \ {originalBufnr} : buffers'[b] = buffers[b]]_vars

\* an apply() step that replaces the stored range of the given kind, the range
\* lying inside the original buffer
AppliesInBounds(kind) ==
  /\ ~ApplyReturns
  /\ originalRange.kind = kind
  /\ InBounds(originalRange, buffers[originalBufnr])
  /\ apply(TRUE)

\* the lines old with the lines S..E replaced by the lines new
LinesReplaced(old, S, E, new) ==
  SubSeq(old, 1, S - 1) \o new \o SubSeq(old, E + 1, Len(old))

\* C13 as stated: a line-wise apply() over the lines S..E leaves the buffer with
\* the n replacement lines at S..S+n-1, the lines outside S..E unchanged and the
\* line count changed by n-(E-S+1), for every n.
C13_LineWiseAnyCount ==
  [][AppliesInBounds("line") =>
       buffers'[originalBufnr] =
         LinesReplaced(buffers[originalBufnr], originalRange.start[1],
                       originalRange.end[1], OutputLines)]_vars

\* C13, amended: the same for n >= 1 replacement lines; with no replacement line
\* (an output view holding the header only) the lines S..E are replaced by one
\* empty line.
C13_LineWise ==
  [][AppliesInBounds("line") =>
       LET old == buffers[originalBufnr]
           new == buffers'[originalBufnr]
           S == originalRange.start[1]
           E == originalRange.end[1]
           n == Len(OutputLines)
       IN IF n = 0
          THEN new = LinesReplaced(old, S, E, << <<>> >>)
          ELSE /\ Len(new) = Len(old) + n - (E - S + 1)
               /\ \A k \in 1..n : new[S + k - 1] = OutputLines[k]
               /\ \A k \in 1..(S - 1) : new[k] = old[k]
               /\ \A k \in (E + 1)..Len(old) : new[k + n - (E - S + 1)] = old[k]]_vars

\* the lines 2..3 were replaced by the one line "x", and so were they by "x", "y"
C13_Witness ==
  /\ done.op = "apply"
  /\ originalRange = [kind |-> "line", start |-> <<2, 1>>, end |-> <<3, 1>>]
  /\ buffers[1] \in { <<OrigLines[1], <<"x">>>>, <<OrigLines[1], <<"x">>, <<"y">>>> }

\* the text of the lines ls before column C of line L (1-based), as a length
TextBefore(ls, L, C) == LineOffset(ls, L - 1) + C - 1

C15_ClosedViewAbandonsStream ==
  [][(/\ task = "edit" /\ pcRun = "streaming" /\ aiBufnr = -1
      /\ \E c \in Chunks : Chunk(c))
       => (done'.calls = <<>> /\ UNCHANGED nvimVars)]_vars

\* the views open in the host: scratch buffers shown in some window
OpenViews == (DOMAIN buffers \ UserBufs) \cap Shown(tabs)

\* C16: an edit task has exactly one active diff view or none -- its output-view
\* id is set exactly when a view it created is open, and every open view is one the
\* task tracks, whatever run(), apply() and close() calls were made.
C16_OneActiveView ==
  task = "edit" =>
    OpenViews = IF aiBufnr = -1 THEN {} ELSE {aiBufnr, origTempBufnr}

\* C17: when role resolution fails in run(), the task aborts before any request:
\* run() rejects having called nothing but parseTaskRole, no diff view is created,
\* no stream is opened and no buffer, tab page or cursor changes.
C17_ConfigErrorAborts ==
  [][\A sel \in Selections, r \in EditRanges \cup {NoRange} :
       (run(sel, r, FALSE) /\ ~(task = "edit" /\ r = NoRange))
         => /\ done' = Report("run", <<"parseTaskRole">>, TRUE)
            /\ pcRun' # "streaming"
            /\ UNCHANGED <<aiBufnr, origTempBufnr, nvimVars, received>>]_vars

\* run() of an edit task with a range was rejected and nothing was opened
C17_Witness ==
  /\ task = "edit"
  /\ originalRange # NoRange
  /\ done = Report("run", <<"parseTaskRole">>, TRUE)
  /\ pcRun = "rejected"
  /\ DOMAIN buffers = UserBufs

\* the concatenation of the content chunks among the chunks cs, in arrival order
RECURSIVE ContentOf(_)
ContentOf(cs) ==
  IF cs = <<>> THEN <<>>
  ELSE (IF Head(cs).type = "content" THEN Head(cs).content ELSE <<>>) \o ContentOf(Tail(cs))

\* what the buffer held when the task started
LinesAtStart(b) == IF b = 1 THEN OrigLines ELSE OtherLines

\* C19: for a complete task, after a content chunk the buffer holds, from the
\* task's starting line, the original current line followed by all the content
\* received so far, split at line breaks (\n or \r\n) -- whatever the chunk
\* boundaries -- and the line counter is the starting line plus the lines inserted.
C19_CompleteInArrivalOrder ==
  (/\ task = "complete" /\ pcRun \in {"streaming", "ended"}
   /\ received # <<>> /\ received[Len(received)].type = "content")
    => \E start \in 1..Len(LinesAtStart(bufnr)) :
         LET old == LinesAtStart(bufnr)
             new == SplitLines(old[start] \o ContentOf(received))
         IN /\ buffers[bufnr] = LinesReplaced(old, start, start, new)
            /\ linenr = start + Len(new) - 1

\* a chunk is processed by an edit task that has its view
ChunkIntoView == task = "edit" /\ aiBufnr # -1 /\ \E c \in Chunks : Chunk(c)

\* C20 as stated: after every chunk the output view holds the header followed by
\* the lines of all the content received so far.
C20_ViewAfterEveryChunk ==
  [][ChunkIntoView =>
       buffers'[aiBufnr] = INSTRUCTIONS \o SplitLines(ContentOf(received'))]_vars

\* C20, amended: after every content chunk the output view holds the header
\* followed by the lines of all the content received so far, a full rewrite that
\* does not depend on the chunk boundaries; a reasoning chunk leaves the view as it
\* is (the header alone before the first content chunk); and a chunk writes no
\* buffer but the output view.
C20_ViewFullyRewritten ==
  [][ChunkIntoView =>
       /\ IF received'[Len(received')].type = "content"
          THEN buffers'[aiBufnr] = INSTRUCTIONS \o SplitLines(ContentOf(received'))
          ELSE buffers'[aiBufnr] = buffers[aiBufnr]
       /\ ContentOf(received') = <<>> => buffers'[aiBufnr] = INSTRUCTIONS
       /\ DOMAIN buffers' = DOMAIN buffers
       /\ \A b \in DOMAIN buffers \ {aiBufnr} : buffers'[b] = buffers[b]]_vars

\* a line break "\r\n" that fell on a chunk boundary became one line break of the
\* output view
C20_Witness ==
  /\ task = "edit" /\ aiBufnr # -1
  /\ received = <<[type |-> "content", content |-> <<"\r">>],
                  [type |-> "content", content |-> <<"\n", "y">>]>>
  /\ buffers[aiBufnr] = INSTRUCTIONS \o << <<>>, <<"y">> >>

(* C18: role-chain resolution is a left fold.  In every state of a resolution
   the configuration equals the fold, from the base configuration and in the
   order of the chain, of the merge of one role (generic options, then the
   options for the task) over the names merged so far; every field holds the
   value of the last group in that order that specifies it, or the base value
   when none does; and the chain [refactor, r1] resolves to temperature 0.6
   and model deepseek-reasoner. *)
RECURSIVE FoldRoles(_, _)
FoldRoles(names, t) ==
  IF names = <<>> THEN Base
  ELSE MergeRole(FoldRoles(SubSeq(names, 1, Len(names) - 1), t), names[Len(names)], t)

RECURSIVE LastSpecified(_, _, _)
LastSpecified(f, names, t) ==
  IF names = <<>> THEN Base[f]
  ELSE LET role == Roles[names[Len(names)]] IN
         IF f \in DOMAIN role[t] THEN role[t][f]
         ELSE IF f \in DOMAIN role.options THEN role.options[f]
         ELSE LastSpecified(f, SubSeq(names, 1, Len(names) - 1), t)

RunWithoutRange ==
  /\ task = "edit"
  /\ \E sel \in Selections, ok \in BOOLEAN :
       run(sel, NoRange, ok) \/ runAgain(sel, NoRange, ok)

RunDoesNothing ==
  /\ done' = Report("run", <<>>, FALSE)
  /\ pcRun' = "returned"
  /\ UNCHANGED <<nvimVars, received>>

C23_NoRangeLeavesNoView ==
  [][RunWithoutRange =>
       /\ RunDoesNothing
       /\ aiBufnr' = -1 /\ origTempBufnr' = -1
       /\ originalBufnr' = -1 /\ originalRange' = NoRange]_vars

(* C23, amended: such a call makes no call on the roles, the host or the
   engine and changes no buffer, tab page or cursor; of the task it assigns
   bufnr alone, so the active view and the stored original buffer and range
   are what they were before the call: none on a task never run with a range,
   those of the earlier run otherwise. *)
C23_NoRangeChangesNothing ==
  [][RunWithoutRange =>
       /\ RunDoesNothing
       /\ bufnr' = CurBuf
       /\ UNCHANGED <<task, linenr, currLine, originalBufnr, originalRange, aiBufnr,
                      origTempBufnr, reasonBlock, accumulatedContent>>
       /\ pcRun = "idle" => /\ aiBufnr' = -1 /\ origTempBufnr' = -1
                            /\ originalBufnr' = -1 /\ originalRange' = NoRange]_vars

C23_Witness ==
  /\ task = "edit"
  /\ pcRun = "returned"
  /\ done = Report("run", <<>>, FALSE)
  /\ aiBufnr # -1
  /\ originalRange # NoRange

(* C21: the placeholder of a complete task.  While only reasoning chunks have
   arrived, the task's buffer is what it was at the start with the one line at
   the cursor replaced by the placeholder of all the reasoning, its line breaks
   collapsed.  After the first content chunk that line holds the original
   current line followed by the content up to its first line break, no
   placeholder, and the writes of the placeholder and of the content are never
   in one undo unit of the buffer. *)
ReasonOf(cs) ==
  [k \in 1..Len(cs) |-> IF cs[k].type = "content" THEN <<>> ELSE cs[k].content]

RECURSIVE Flatten(_)
Flatten(ss) == IF ss = <<>> THEN <<>> ELSE Head(ss) \o Flatten(Tail(ss))

ContentChunks(cs) == {k \in 1..Len(cs) : cs[k].type = "content"}

PlaceholderIsOneLine ==
  (received # <<>> /\ NoUsableContent)
    => /\ linenr \in 1..Len(LinesAtStart(bufnr))
       /\ buffers[bufnr] =
            [LinesAtStart(bufnr) EXCEPT
               ![linenr] = Placeholder(CollapseLines(Flatten(ReasonOf(received))))]

PlaceholderGone ==
  (ContentChunks(received) = {Len(received)})
    => \E start \in 1..Len(LinesAtStart(bufnr)) :
         buffers[bufnr][start] =
           LinesAtStart(bufnr)[start] \o SplitLines(received[Len(received)].content)[1]

\* every reasoning chunk received came before every content chunk received
ReasoningFirst ==
  \A i, j \in 1..Len(received) :
    (i < j /\ received[i].type = "content") => received[j].type = "content"

DistinctUndoUnits ==
  ReasoningFirst
    => ~(\E i, j \in 1..Len(undoUnit) :
            undoUnit[i] = "placeholder" /\ undoUnit[j] = "content")

C21_PlaceholderThenContent ==
  (task = "complete" /\ pcRun \in {"streaming", "ended"})
    => (PlaceholderIsOneLine /\ PlaceholderGone /\ DistinctUndoUnits)

(* C22: content written by a complete task is never lost.  When the stream has
   ended and content has arrived, whatever the order of reasoning and content
   chunks, the task's buffer is what it was at the start with the line at the
   cursor replaced by the lines of the original current line followed by all
   the content, and no line of the buffer is a placeholder. *)
IsPlaceholder(line) ==
  /\ Len(line) >= 6
  /\ SubSeq(line, 1, 3) = <<"\"", "\"", "\"">>
  /\ SubSeq(line, Len(line) - 2, Len(line)) = <<"\"", "\"", "\"">>

C22_ContentNeverLost ==
  (task = "complete" /\ pcRun = "ended" /\ ContentChunks(received) # {})
    => /\ \E start \in 1..Len(LinesAtStart(bufnr)) :
            buffers[bufnr] =
              LinesReplaced(LinesAtStart(bufnr), start, start,
                            SplitLines(LinesAtStart(bufnr)[start] \o ContentOf(received)))
       /\ \A k \in 1..Len(buffers[bufnr]) : ~IsPlaceholder(buffers[bufnr][k])

====
